---- MODULE Spec2Model ----
(***************************************************************************)
(* Model of src/src/types.rs: the five geography types (GeogPoint,         *)
(* GeogPointZ, GeogLineString, GeogLineStringZ, GeogPolygon), their        *)
(* conversions to and from the postgis::ewkb types, and the diesel         *)
(* FromSql / ToSql hooks built on them.                                    *)
(*                                                                         *)
(* f64 coordinates are modelled by integers standing for distinct finite   *)
(* f64 values; the program only copies them, and equality is exact.        *)
(* NaN is not among them: a value holding NaN is unequal to itself under   *)
(* the derived PartialEq, whatever the conversions do.                     *)
(* Option<T> is modelled by a sequence: None is <<>>, Some(v) is <<v>>.    *)
(***************************************************************************)
EXTENDS Integers, Sequences, FiniteSets

\* ------------------------------------------------------------------ bounds
\* Largest number of points of an input line string (LineString, LineStringZ).
MaxPoints == 3
\* Largest number of rings of an input polygon.
MaxRings == 2
\* Largest total number of points of an input polygon, over all its rings.
MaxPolyPoints == 2

\* ------------------------------------------------------------ sample values
None == <<>>

Some(v) == <<v>>

\* Sample f64 coordinate values.
Coords == {0, 1}

\* Sample i32 srid values; an srid is Option<i32>.
SridValues == {-1, 4326}

Srid == {None} \cup {Some(v) : v \in SridValues}

\* Sample srid values of polygons, their rings and their points.
PolygonSrid == {None, Some(4326)}

\* Sample (x, y) pairs of the points of a polygon's rings.
RingCoords == {<<0, 1>>, <<1, 0>>}

SeqUpTo(S, n) == UNION {[1..k -> S] : k \in 0..n}

RECURSIVE Sum(_)
Sum(s) == IF s = <<>> THEN 0 ELSE Head(s) + Sum(Tail(s))

\* ------------------------------------------------------------------- types
\* pub struct GeogPoint { x, y, srid }
GeogPoint(x, y, srid) == [type |-> "GeogPoint", x |-> x, y |-> y, srid |-> srid]

\* pub struct GeogPointZ { x, y, z, srid }
GeogPointZ(x, y, z, srid) ==
    [type |-> "GeogPointZ", x |-> x, y |-> y, z |-> z, srid |-> srid]

\* pub struct GeogLineString { points, srid }
GeogLineString(points, srid) ==
    [type |-> "GeogLineString", points |-> points, srid |-> srid]

\* pub struct GeogLineStringZ { points, srid }
GeogLineStringZ(points, srid) ==
    [type |-> "GeogLineStringZ", points |-> points, srid |-> srid]

\* pub struct GeogPolygon { rings, srid }
GeogPolygon(rings, srid) == [type |-> "GeogPolygon", rings |-> rings, srid |-> srid]

\* postgis::ewkb::Point { x, y, srid }
Point(x, y, srid) == [type |-> "Point", x |-> x, y |-> y, srid |-> srid]

\* postgis::ewkb::PointZ { x, y, z, srid }
PointZ(x, y, z, srid) == [type |-> "PointZ", x |-> x, y |-> y, z |-> z, srid |-> srid]

\* postgis::ewkb::LineString { points, srid }
LineString(points, srid) == [type |-> "LineString", points |-> points, srid |-> srid]

\* postgis::ewkb::LineStringZ { points, srid }
LineStringZ(points, srid) == [type |-> "LineStringZ", points |-> points, srid |-> srid]

\* postgis::ewkb::Polygon { rings, srid }
Polygon(rings, srid) == [type |-> "Polygon", rings |-> rings, srid |-> srid]

\* ------------------------------------------------------------- conversions
\* impl From<Point> for GeogPoint
GeogPoint_from(p) == GeogPoint(p.x, p.y, p.srid)

\* impl From<GeogPoint> for Point
Point_from(p) == Point(p.x, p.y, p.srid)

\* GeogPointZ_from with the srid left out (a point built with srid: None).
GeogPointZ_from_no_srid(p) == GeogPointZ(p.x, p.y, p.z, None)

\* impl From<PointZ> for GeogPointZ
GeogPointZ_from(p) == GeogPointZ(p.x, p.y, p.z, p.srid)

\* impl From<GeogPointZ> for PointZ
PointZ_from(p) == PointZ(p.x, p.y, p.z, p.srid)

\* GeogLineString_from with each point keeping the srid the external point
\* carries (srid: p.srid) instead of the line's.
GeogLineString_from_point_srid(p) ==
    LET srid == p.srid
        convertedPoints == [i \in DOMAIN p.points |->
                               GeogPoint(p.points[i].x, p.points[i].y,
                                         p.points[i].srid)]
    IN  GeogLineString(convertedPoints, srid)

\* impl From<LineString> for GeogLineString: every point gets the line's srid.
GeogLineString_from(p) ==
    LET srid == p.srid
        convertedPoints == [i \in DOMAIN p.points |->
                               GeogPoint(p.points[i].x, p.points[i].y, srid)]
    IN  GeogLineString(convertedPoints, srid)

\* LineString_from with each point keeping its own srid (srid: p.srid).
LineString_from_point_srid(p) ==
    LET srid == p.srid
        convertedPoints == [i \in DOMAIN p.points |->
                               Point(p.points[i].x, p.points[i].y, p.points[i].srid)]
    IN  LineString(convertedPoints, srid)

\* impl From<GeogLineString> for LineString: every point gets the line's srid.
LineString_from(p) ==
    LET srid == p.srid
        convertedPoints == [i \in DOMAIN p.points |->
                               Point(p.points[i].x, p.points[i].y, srid)]
    IN  LineString(convertedPoints, srid)

\* GeogLineStringZ_from with z copied from y (z: p.y).
GeogLineStringZ_from_z_is_y(p) ==
    LET srid == p.srid
        convertedPoints == [i \in DOMAIN p.points |->
                               GeogPointZ(p.points[i].x, p.points[i].y,
                                          p.points[i].y, srid)]
    IN  GeogLineStringZ(convertedPoints, srid)

\* impl From<LineStringZ> for GeogLineStringZ
GeogLineStringZ_from(p) ==
    LET srid == p.srid
        convertedPoints == [i \in DOMAIN p.points |->
                               GeogPointZ(p.points[i].x, p.points[i].y,
                                          p.points[i].z, srid)]
    IN  GeogLineStringZ(convertedPoints, srid)

\* impl From<GeogLineStringZ> for LineStringZ
LineStringZ_from(p) ==
    LET srid == p.srid
        convertedPoints == [i \in DOMAIN p.points |->
                               PointZ(p.points[i].x, p.points[i].y,
                                      p.points[i].z, srid)]
    IN  LineStringZ(convertedPoints, srid)

\* GeogPolygon_from with the points of a ring taking the ring's srid
\* (srid: line.srid) instead of the polygon's.
GeogPolygon_from_ring_srid(p) ==
    LET srid == p.srid
        convertedLines == [r \in DOMAIN p.rings |->
            LET line == p.rings[r]
                convertedPoints == [i \in DOMAIN line.points |->
                                       GeogPoint(line.points[i].x,
                                                 line.points[i].y, line.srid)]
            IN  GeogLineString(convertedPoints, line.srid)]
    IN  GeogPolygon(convertedLines, srid)

\* impl From<Polygon> for GeogPolygon: the loop over the rings pushes, for each
\* ring in order, a GeogLineString whose points carry the POLYGON's srid and
\* whose own srid is the ring's (line.srid).
GeogPolygon_from(p) ==
    LET srid == p.srid
        convertedLines == [r \in DOMAIN p.rings |->
            LET line == p.rings[r]
                convertedPoints == [i \in DOMAIN line.points |->
                                       GeogPoint(line.points[i].x,
                                                 line.points[i].y, srid)]
            IN  GeogLineString(convertedPoints, line.srid)]
    IN  GeogPolygon(convertedLines, srid)

\* Polygon_from with each converted ring inserted at the front of
\* convertedLines instead of pushed at its end.
Polygon_from_rings_reversed(p) ==
    LET srid == p.srid
        n == Len(p.rings)
        convertedLines == [r \in DOMAIN p.rings |->
            LET line == p.rings[n + 1 - r]
                convertedPoints == [i \in DOMAIN line.points |->
                                       Point(line.points[i].x,
                                             line.points[i].y, srid)]
            IN  LineString(convertedPoints, line.srid)]
    IN  Polygon(convertedLines, srid)

\* Polygon_from with the ring's srid made the polygon's, like its points'.
Polygon_from_ring_overwritten(p) ==
    LET srid == p.srid
        convertedLines == [r \in DOMAIN p.rings |->
            LET line == p.rings[r]
                convertedPoints == [i \in DOMAIN line.points |->
                                       Point(line.points[i].x,
                                             line.points[i].y, srid)]
            IN  LineString(convertedPoints, srid)]
    IN  Polygon(convertedLines, srid)

\* impl From<GeogPolygon> for Polygon: same loop in the other direction.
Polygon_from(p) ==
    LET srid == p.srid
        convertedLines == [r \in DOMAIN p.rings |->
            LET line == p.rings[r]
                convertedPoints == [i \in DOMAIN line.points |->
                                       Point(line.points[i].x,
                                             line.points[i].y, srid)]
            IN  LineString(convertedPoints, line.srid)]
    IN  Polygon(convertedLines, srid)

\* ------------------------------------------------------------------ inputs
\* The input families are built once with the geography type names and once
\* with the postgis type names, so that external values with arbitrary
\* per-point srid values are inputs too.
PointSet(t) ==
    {[type |-> t, x |-> x, y |-> y, srid |-> s] : x \in Coords, y \in Coords, s \in Srid}

PointZSet(t) ==
    {[type |-> t, x |-> xy[1], y |-> xy[2], z |-> z, srid |-> s] :
        xy \in Coords \X Coords, z \in Coords, s \in Srid}

LineStringSet(t, pt) ==
    LET pts == {[type |-> pt, x |-> xy[1], y |-> xy[2], srid |-> s] :
                   xy \in RingCoords, s \in Srid}
    IN  {[type |-> t, points |-> ps, srid |-> s] :
            ps \in SeqUpTo(pts, MaxPoints), s \in Srid}

\* The z of a point of an input LineStringZ is tied to its (x, y) so that x, y
\* and z are pairwise different.
LineStringZSet(t, pt) ==
    LET pts == {[type |-> pt, x |-> xy[1], y |-> xy[2], z |-> 2 + xy[1], srid |-> s] :
                   xy \in RingCoords, s \in Srid}
    IN  {[type |-> t, points |-> ps, srid |-> s] :
            ps \in SeqUpTo(pts, MaxPoints), s \in Srid}

\* The ring lengths of the input polygons.
Shapes == {sh \in SeqUpTo(0..MaxPolyPoints, MaxRings) : Sum(sh) <= MaxPolyPoints}

\* The sequences of rings of the lengths sh, the rings of length n drawn from
\* ringsOfLen[n].
RECURSIVE RingSeqs(_, _)
RingSeqs(sh, ringsOfLen) ==
    IF sh = <<>> THEN {<<>>}
    ELSE {<<l>> \o rest : l \in ringsOfLen[Head(sh)],
                         rest \in RingSeqs(Tail(sh), ringsOfLen)}

PolygonSet(t, lt, pt) ==
    LET pts == {[type |-> pt, x |-> xy[1], y |-> xy[2], srid |-> s] :
                   xy \in RingCoords, s \in PolygonSrid}
        ringsOfLen == [n \in 0..MaxPolyPoints |->
                          {[type |-> lt, points |-> ps, srid |-> s] :
                              ps \in [1..n -> pts], s \in PolygonSrid}]
    IN  {[type |-> t, rings |-> rs, srid |-> s] :
            rs \in UNION {RingSeqs(sh, ringsOfLen) : sh \in Shapes},
            s \in PolygonSrid}

\* Domain values: the inputs of the conversions to postgis and of to_sql.
GeogValues ==
    PointSet("GeogPoint") \cup PointZSet("GeogPointZ")
        \cup LineStringSet("GeogLineString", "GeogPoint")
        \cup LineStringZSet("GeogLineStringZ", "GeogPointZ")
        \cup PolygonSet("GeogPolygon", "GeogLineString", "GeogPoint")

\* External values: what the postgis reader can hand to the conversions.
EwkbValues ==
    PointSet("Point") \cup PointZSet("PointZ")
        \cup LineStringSet("LineString", "Point")
        \cup LineStringZSet("LineStringZ", "PointZ")
        \cup PolygonSet("Polygon", "LineString", "Point")

\* The geography types that implement FromSql and ToSql.
Kinds == {"GeogPoint", "GeogPointZ", "GeogLineString", "GeogLineStringZ", "GeogPolygon"}

\* The postgis type that each geography type reads and writes.
EwkbType(t) ==
    CASE t = "GeogPoint" -> "Point"
      [] t = "GeogPointZ" -> "PointZ"
      [] t = "GeogLineString" -> "LineString"
      [] t = "GeogLineStringZ" -> "LineStringZ"
      [] t = "GeogPolygon" -> "Polygon"

\* ----------------------------------------------------------- results, errors
\* Result<T, E>; an error is the sequence of the parts of its message.
Ok(v) == [tag |-> "Ok", value |-> v]

Err(e) == [tag |-> "Err", error |-> e]

NoResult == [tag |-> "none"]

NoValue == [type |-> "none"]

\* diesel's not_none!(bytes): an absent input returns Err(UnexpectedNullError)
\* from the enclosing from_sql.
UnexpectedNullError == <<"UnexpectedNullError">>

not_none(bytes_) == IF bytes_ = None THEN Err(UnexpectedNullError) ELSE Ok(bytes_[1])

\* serialize::IsNull::No
IsNullNo == "IsNull::No"

\* What the postgis reader makes of a byte sequence that is no geometry of the
\* type it reads.
Malformed == {"empty", "truncated", "bad type tag"}

\* The byte sequences handed to from_sql of geography type t, each modelled by
\* what T::read_ewkb makes of it: a geometry of the type it reads, or a defect.
WireBytes(t) ==
    {[form |-> "wellformed", geom |-> g] : g \in {e \in EwkbValues : e.type = EwkbType(t)}}
        \cup {[form |-> m] : m \in Malformed}

\* T::read_ewkb(&mut rdr) of the postgis crate: the geometry, or the reader's
\* error (which names the defect, not the geography type being decoded).
read_ewkb(b) ==
    IF b.form = "wellformed" THEN Ok(b.geom)
    ELSE Err(<<"postgis::error::Error::Read", b.form>>)

\* The outcomes of write_ewkb(out): written, or the error of the output sink.
SinkErrors == {<<"io::Error", "broken pipe">>, <<"io::Error", "write zero">>}

SinkOutcomes == {Ok("written")} \cup {Err(e) : e \in SinkErrors}

\* --------------------------------------------------------------- from_sql
\* GeogPoint::from_sql with an absent input read as the zero point.
GeogPoint_from_sql_default(bytes_) ==
    IF bytes_ = None THEN Ok(GeogPoint(0, 0, None))
    ELSE LET r == read_ewkb(bytes_[1])
         IN  IF r.tag = "Err" THEN Err(r.error) ELSE Ok(GeogPoint_from(r.value))

\* let bytes = not_none!(bytes); Ok(Point::read_ewkb(&mut rdr)?.into())
GeogPoint_from_sql(bytes_) ==
    LET b == not_none(bytes_)
    IN  IF b.tag = "Err" THEN b
        ELSE LET r == read_ewkb(b.value)
             IN  IF r.tag = "Err" THEN Err(r.error) ELSE Ok(GeogPoint_from(r.value))

GeogPointZ_from_sql(bytes_) ==
    LET b == not_none(bytes_)
    IN  IF b.tag = "Err" THEN b
        ELSE LET r == read_ewkb(b.value)
             IN  IF r.tag = "Err" THEN Err(r.error) ELSE Ok(GeogPointZ_from(r.value))

\* GeogLineString::from_sql with the reader's error prefixed by the type decoded.
GeogLineString_from_sql_annotated(bytes_) ==
    LET b == not_none(bytes_)
    IN  IF b.tag = "Err" THEN b
        ELSE LET r == read_ewkb(b.value)
             IN  IF r.tag = "Err" THEN Err(<<"GeogLineString">> \o r.error)
                 ELSE Ok(GeogLineString_from(r.value))

GeogLineString_from_sql(bytes_) ==
    LET b == not_none(bytes_)
    IN  IF b.tag = "Err" THEN b
        ELSE LET r == read_ewkb(b.value)
             IN  IF r.tag = "Err" THEN Err(r.error) ELSE Ok(GeogLineString_from(r.value))

GeogLineStringZ_from_sql(bytes_) ==
    LET b == not_none(bytes_)
    IN  IF b.tag = "Err" THEN b
        ELSE LET r == read_ewkb(b.value)
             IN  IF r.tag = "Err" THEN Err(r.error) ELSE Ok(GeogLineStringZ_from(r.value))

GeogPolygon_from_sql(bytes_) ==
    LET b == not_none(bytes_)
    IN  IF b.tag = "Err" THEN b
        ELSE LET r == read_ewkb(b.value)
             IN  IF r.tag = "Err" THEN Err(r.error) ELSE Ok(GeogPolygon_from(r.value))

\* ----------------------------------------------------------------- to_sql
\* The sink after one write_ewkb(out) call with value e that ended as `written`.
write_ewkb(out, e, written) ==
    [attempts |-> out.attempts + 1,
     data |-> IF written.tag = "Ok" THEN Append(out.data, e) ELSE out.data,
     outcome |-> written]

\* to_sql with the result of write_ewkb ignored.
to_sql_ignoring(written) == Ok(IsNullNo)

\* T::from(..).as_ewkb().write_ewkb(out)?; Ok(IsNull::No)
\* `written` is the outcome of the write_ewkb call: `?` returns its error as it
\* is, and otherwise the hook returns IsNull::No.
to_sql(written) == IF written.tag = "Err" THEN Err(written.error) ELSE Ok(IsNullNo)

\* ------------------------------------------------------------------- state
VARIABLES
    pc,      \* "start" | "converted" | "restored" | "wire" | "read" | "written"
    target,  \* the geography type whose conversion or hook is called
    geog,    \* the domain value given to the conversion or to to_sql
    ewkb,    \* the postgis value built from geog
    back,    \* the domain value built from ewkb
    bytes,   \* from_sql's argument: Option<&[u8]>
    ret,     \* what from_sql or to_sql returned
    sink     \* the output sink of to_sql: write_ewkb calls made, values written

vars == <<pc, target, geog, ewkb, back, bytes, ret, sink>>

EmptySink == [attempts |-> 0, data |-> <<>>, outcome |-> NoResult]

\* Either a domain value is at hand (to convert, or to write with to_sql), or a
\* column value has arrived for from_sql of one of the geography types.
Init ==
    /\ ewkb = NoValue
    /\ back = NoValue
    /\ ret = NoResult
    /\ sink = EmptySink
    /\ \/ /\ pc = "start"
          /\ geog \in GeogValues
          /\ target = geog.type
          /\ bytes = None
       \/ /\ pc = "wire"
          /\ geog = NoValue
          /\ target \in Kinds
          /\ bytes \in {None} \cup {Some(b) : b \in WireBytes(target)}

\* ----------------------------------------------------------------- actions
\* T::from(geog) for the geography type t: e is the postgis value it builds.
Convert(t, e) ==
    /\ pc = "start"
    /\ target = t
    /\ ewkb' = e
    /\ pc' = "converted"
    /\ UNCHANGED <<target, geog, back, bytes, ret, sink>>

\* ewkb.into() for the geography type t: g is the domain value it builds.
Restore(t, g) ==
    /\ pc = "converted"
    /\ target = t
    /\ back' = g
    /\ pc' = "restored"
    /\ UNCHANGED <<target, geog, ewkb, bytes, ret, sink>>

\* from_sql(bytes) of the geography type t: r is what it returns.
FromSql(t, r) ==
    /\ pc = "wire"
    /\ target = t
    /\ ret' = r
    /\ pc' = "read"
    /\ UNCHANGED <<target, geog, ewkb, back, bytes, sink>>

\* self.to_sql(out) of the geography type t: e is the postgis value it builds
\* and hands to write_ewkb, whose outcome the sink decides.
ToSql(t, e) ==
    /\ pc = "start"
    /\ target = t
    /\ \E written \in SinkOutcomes :
          /\ sink' = write_ewkb(sink, e, written)
          /\ ret' = to_sql(written)
    /\ pc' = "written"
    /\ UNCHANGED <<target, geog, ewkb, back, bytes>>

PointFromGeogPoint == Convert("GeogPoint", Point_from(geog))

GeogPointFromPoint == Restore("GeogPoint", GeogPoint_from(ewkb))

PointZFromGeogPointZ == Convert("GeogPointZ", PointZ_from(geog))

GeogPointZFromPointZ == Restore("GeogPointZ", GeogPointZ_from(ewkb))

LineStringFromGeogLineString == Convert("GeogLineString", LineString_from(geog))

GeogLineStringFromLineString == Restore("GeogLineString", GeogLineString_from(ewkb))

LineStringZFromGeogLineStringZ == Convert("GeogLineStringZ", LineStringZ_from(geog))

GeogLineStringZFromLineStringZ == Restore("GeogLineStringZ", GeogLineStringZ_from(ewkb))

PolygonFromGeogPolygon == Convert("GeogPolygon", Polygon_from(geog))

GeogPolygonFromPolygon == Restore("GeogPolygon", GeogPolygon_from(ewkb))

GeogPointFromSql == FromSql("GeogPoint", GeogPoint_from_sql(bytes))

GeogPointZFromSql == FromSql("GeogPointZ", GeogPointZ_from_sql(bytes))

GeogLineStringFromSql == FromSql("GeogLineString", GeogLineString_from_sql(bytes))

GeogLineStringZFromSql == FromSql("GeogLineStringZ", GeogLineStringZ_from_sql(bytes))

GeogPolygonFromSql == FromSql("GeogPolygon", GeogPolygon_from_sql(bytes))

GeogPointToSql == ToSql("GeogPoint", Point_from(geog))

GeogPointZToSql == ToSql("GeogPointZ", PointZ_from(geog))

GeogLineStringToSql == ToSql("GeogLineString", LineString_from(geog))

GeogLineStringZToSql == ToSql("GeogLineStringZ", LineStringZ_from(geog))

GeogPolygonToSql == ToSql("GeogPolygon", Polygon_from(geog))

Next ==
    \/ PointFromGeogPoint
    \/ GeogPointFromPoint
    \/ PointZFromGeogPointZ
    \/ GeogPointZFromPointZ
    \/ LineStringFromGeogLineString
    \/ GeogLineStringFromLineString
    \/ LineStringZFromGeogLineStringZ
    \/ GeogLineStringZFromLineStringZ
    \/ PolygonFromGeogPolygon
    \/ GeogPolygonFromPolygon
    \/ GeogPointFromSql
    \/ GeogPointZFromSql
    \/ GeogLineStringFromSql
    \/ GeogLineStringZFromSql
    \/ GeogPolygonFromSql
    \/ GeogPointToSql
    \/ GeogPointZToSql
    \/ GeogLineStringToSql
    \/ GeogLineStringZToSql
    \/ GeogPolygonToSql

Spec == Init /\ [][Next]_vars

\* ----------------------------------------------------------------- claims
IsPointType(t) == t \in {"GeogPoint", "GeogPointZ"}

IsLineType(t) == t \in {"GeogLineString", "GeogLineStringZ"}

IsComposite(t) == t \in {"GeogLineString", "GeogLineStringZ", "GeogPolygon"}

\* Points a and b have the same coordinates: x, y and, for PointZ types, z.
SameCoords(a, b) ==
    /\ a.x = b.x
    /\ a.y = b.y
    /\ (a.type \in {"GeogPointZ", "PointZ"}) = (b.type \in {"GeogPointZ", "PointZ"})
    /\ a.type \in {"GeogPointZ", "PointZ"} => a.z = b.z

\* Line strings a and b have as many points, with the same coordinates in order.
SamePoints(a, b) ==
    /\ Len(a.points) = Len(b.points)
    /\ \A i \in DOMAIN b.points : SameCoords(a.points[i], b.points[i])

\* Every point of the composite v (of every ring, for a polygon) has srid s.
PointSridsAre(v, s) ==
    IF v.type \in {"GeogPolygon", "Polygon"}
    THEN \A r \in DOMAIN v.rings :
            \A i \in DOMAIN v.rings[r].points : v.rings[r].points[i].srid = s
    ELSE \A i \in DOMAIN v.points : v.points[i].srid = s

\* The number of points of the composite v.
PointCount(v) ==
    IF v.type \in {"GeogPolygon", "Polygon"}
    THEN Sum([r \in DOMAIN v.rings |-> Len(v.rings[r].points)])
    ELSE Len(v.points)

\* The round trip domain -> external -> domain of a composite domain value.
RoundTrip(v) ==
    CASE v.type = "GeogLineString" -> GeogLineString_from(LineString_from(v))
      [] v.type = "GeogLineStringZ" -> GeogLineStringZ_from(LineStringZ_from(v))
      [] v.type = "GeogPolygon" -> GeogPolygon_from(Polygon_from(v))

\* C1: converting a GeogPoint or GeogPointZ to the postgis point and back
\* returns the value it started from: x, y, (z) and srid unchanged.
C1_PointRoundTrip ==
    (pc = "restored" /\ IsPointType(target)) =>
        /\ back = geog
        /\ ewkb.srid = geog.srid

C1_Witness ==
    /\ pc = "restored"
    /\ target = "GeogPointZ"
    /\ geog.srid = Some(-1)
    /\ geog.x # geog.y

\* C2: converting a GeogLineString or GeogLineStringZ of N >= 0 points to
\* postgis and back returns as many points, with the same coordinates at every
\* index, whatever srid values the line and its points hold.
C2_LineStringRoundTrip ==
    (pc = "restored" /\ IsLineType(target)) => SamePoints(back, geog)

C2_Witness ==
    /\ pc = "restored"
    /\ target = "GeogLineStringZ"
    /\ Len(geog.points) >= 2
    /\ ~SameCoords(geog.points[1], geog.points[2])
    /\ geog.points[1].srid # geog.srid
    /\ geog.points[2].srid # geog.points[1].srid

\* C3: converting a GeogPolygon of M >= 0 rings to postgis and back returns M
\* rings in the same order, ring i with its points in the same order and with
\* the same coordinates, and the polygon's srid unchanged.
C3_PolygonRoundTrip ==
    (pc = "restored" /\ target = "GeogPolygon") =>
        /\ Len(back.rings) = Len(geog.rings)
        /\ \A r \in DOMAIN geog.rings : SamePoints(back.rings[r], geog.rings[r])
        /\ back.srid = geog.srid

C3_Witness ==
    /\ pc = "restored"
    /\ target = "GeogPolygon"
    /\ Len(geog.rings) = 2
    /\ Len(geog.rings[1].points) = 1
    /\ Len(geog.rings[2].points) = 1
    /\ ~SameCoords(geog.rings[1].points[1], geog.rings[2].points[1])

\* C4: encoding a GeogLineString or GeogLineStringZ gives every point of the
\* external value the line's srid, whatever srid the points held; the
\* conversion is defined on every input (a mismatch is no error), and to_sql
\* hands that value to the sink and fails only if the sink does.
C4_SridOverwrite ==
    /\ (pc = "start" /\ target = "GeogLineString") => ENABLED LineStringFromGeogLineString
    /\ (pc = "start" /\ target = "GeogLineStringZ") => ENABLED LineStringZFromGeogLineStringZ
    /\ (pc = "converted" /\ IsLineType(target)) =>
          /\ ewkb.type = EwkbType(target)
          /\ ewkb.srid = geog.srid
          /\ PointSridsAre(ewkb, geog.srid)
    /\ (pc = "written" /\ IsLineType(target) /\ sink.outcome.tag = "Ok") =>
          /\ ret.tag = "Ok"
          /\ Len(sink.data) = 1
          /\ PointSridsAre(sink.data[1], geog.srid)

C4_Witness ==
    /\ pc = "converted"
    /\ target = "GeogLineString"
    /\ geog.srid = None
    /\ Len(geog.points) >= 2
    /\ geog.points[1].srid = Some(4326)
    /\ geog.points[2].srid = Some(-1)

\* C5: from_sql of each of the five types, given an absent input (SQL NULL),
\* returns an error (UnexpectedNullError) and never a shape.
C5_AbsentInputFails ==
    (pc = "read" /\ bytes = None) => ret = Err(UnexpectedNullError)

C5_Witness ==
    /\ pc = "read"
    /\ bytes = None
    /\ target = "GeogPolygon"

\* C6 as stated: when the reader cannot parse the bytes, from_sql fails and its
\* error is the reader's error annotated with the type being decoded.
C6_ReaderErrorAnnotated ==
    (pc = "read" /\ bytes # None /\ bytes[1].form \in Malformed) =>
        /\ ret.tag = "Err"
        /\ \E i \in DOMAIN ret.error : ret.error[i] = target
        /\ \E k \in 0..Len(ret.error) :
              SubSeq(ret.error, k + 1, Len(ret.error)) = read_ewkb(bytes[1]).error

\* C6 as amended: when the reader cannot parse the bytes, from_sql fails
\* without returning a shape, and its error is the reader's error as it is,
\* with nothing naming the type being decoded.
C6_ReaderErrorUnmodified ==
    (pc = "read" /\ bytes # None /\ bytes[1].form \in Malformed) =>
        /\ ret = Err(read_ewkb(bytes[1]).error)
        /\ \A i \in DOMAIN ret.error : ret.error[i] \notin Kinds

C6_Witness ==
    /\ pc = "read"
    /\ target = "GeogLineString"
    /\ bytes = Some([form |-> "empty"])

\* C7: to_sql of each type fails if and only if the sink fails, and then with
\* the sink's error; when the sink accepts the write, to_sql returns
\* Ok(IsNull::No); write_ewkb is called exactly once either way.
C7_ToSqlFailsWithSink ==
    (pc = "written") =>
        /\ (ret.tag = "Err") = (sink.outcome.tag = "Err")
        /\ sink.outcome.tag = "Err" => ret = Err(sink.outcome.error)
        /\ sink.outcome.tag = "Ok" => ret = Ok(IsNullNo)
        /\ sink.attempts = 1

C7_Witness ==
    /\ pc = "written"
    /\ target = "GeogPolygon"
    /\ sink.outcome.tag = "Err"
    /\ Len(geog.rings) > 0

\* C8: encoding a GeogPolygon gives every point of every ring the polygon's
\* srid and copies each ring's own srid unchanged, so a ring whose srid differs
\* from the polygon's is encoded with a declared srid that differs from the
\* srid of each of its points.
C8_PolygonEncodeSrid ==
    (pc = "converted" /\ target = "GeogPolygon") =>
        /\ ewkb.srid = geog.srid
        /\ PointSridsAre(ewkb, geog.srid)
        /\ Len(ewkb.rings) = Len(geog.rings)
        /\ \A r \in DOMAIN geog.rings :
              /\ ewkb.rings[r].srid = geog.rings[r].srid
              /\ geog.rings[r].srid # geog.srid =>
                    \A i \in DOMAIN ewkb.rings[r].points :
                        ewkb.rings[r].points[i].srid # ewkb.rings[r].srid

C8_Witness ==
    /\ pc = "converted"
    /\ target = "GeogPolygon"
    /\ \E r \in DOMAIN geog.rings :
          /\ geog.rings[r].srid # geog.srid
          /\ Len(geog.rings[r].points) > 0
          /\ geog.rings[r].points[1].srid = geog.rings[r].srid

\* C9: decoding an external LineString, LineStringZ or Polygon gives a domain
\* value whose srid is the external value's top-level srid and whose every
\* point (of every ring) has that same srid, whatever srid the external points
\* carried.
C9_DecodeStampsSrid ==
    /\ (pc = "read" /\ IsComposite(target) /\ ret.tag = "Ok") =>
          /\ ret.value.srid = bytes[1].geom.srid
          /\ PointSridsAre(ret.value, bytes[1].geom.srid)
          /\ PointCount(ret.value) = PointCount(bytes[1].geom)
    /\ (pc = "restored" /\ IsComposite(target)) =>
          /\ back.srid = ewkb.srid
          /\ PointSridsAre(back, ewkb.srid)
          /\ PointCount(back) = PointCount(ewkb)

C9_Witness ==
    /\ pc = "read"
    /\ target = "GeogLineString"
    /\ ret.tag = "Ok"
    /\ Len(bytes[1].geom.points) >= 2
    /\ bytes[1].geom.points[1].srid # bytes[1].geom.srid
    /\ bytes[1].geom.points[2].srid # bytes[1].geom.points[1].srid

\* C10: the round trip N (domain -> external -> domain) of a composite is an
\* idempotent normalisation: N(N(v)) = N(v); N(v) = v exactly when every point
\* of v already has v's top-level srid; and changing a ring's srid never
\* changes whether N(v) = v.
C10_RoundTripNormalises ==
    (pc = "restored" /\ IsComposite(target)) =>
        /\ back = RoundTrip(geog)
        /\ RoundTrip(back) = back
        /\ (back = geog) = PointSridsAre(geog, geog.srid)
        /\ target = "GeogPolygon" =>
              \A r \in DOMAIN geog.rings : \A s \in PolygonSrid :
                  LET v == [geog EXCEPT !.rings[r].srid = s]
                  IN  (RoundTrip(v) = v) = (back = geog)

C10_Witness ==
    /\ pc = "restored"
    /\ target = "GeogPolygon"
    /\ back = geog
    /\ PointCount(geog) > 0
    /\ \E r \in DOMAIN geog.rings : geog.rings[r].srid # geog.srid

====
